---------------------------- MODULE Spec2Model ----------------------------
(***************************************************************************)
(* Smart Travel planner (smart_travel/travel/views.py): the page handlers   *)
(* index and history, the lookups they call (get_weather, get_route,        *)
(* get_coordinates, get_bc_cities), the advice rule get_travel_advice and   *)
(* the query store (save_travel_query, get_travel_history).                 *)
(*                                                                         *)
(* Encoding of Python values:                                               *)
(*   - a str on which the code works character by character (city names,   *)
(*     weather descriptions) is a sequence of one-character strings;        *)
(*   - None is the empty tuple <<>>; a value that may be None or a number   *)
(*     is <<>> or the one-element tuple <<n>>;                              *)
(*   - a dict is a record, a missing key is a field outside its DOMAIN;     *)
(*   - a float with d decimals is the integer of its 10^d multiples         *)
(*     (12.3 km is 123 tenths of a km, 273.15 K is 27315 hundredths).       *)
(***************************************************************************)
EXTENDS Integers, Sequences, FiniteSets, TLC

VARIABLES
    store,           \* the travel_queries collection, in insertion order
    pc,              \* position of the request being handled
    method,          \* request.method of the request being handled
    start_city,      \* form.cleaned_data['start_city']
    end_city,        \* form.cleaned_data['end_city']
    weather_start,   \* index: weather_start
    weather_end,     \* index: weather_end
    start_coord,     \* get_route: (start_lat, start_lon)
    end_coord,       \* get_route: (end_lat, end_lon)
    route_details,   \* index: route_details
    current_hour,    \* index: current_time.hour
    travel_advice,   \* index: travel_advice
    travel_queries,  \* history: travel_queries
    reply,           \* the answer of the external service called last
    response,        \* what the last finished request sent back
    trace            \* the calls made so far by the request being handled

vars == <<store, pc, method, start_city, end_city, weather_start, weather_end,
          start_coord, end_coord, route_details, current_hour, travel_advice,
          travel_queries, reply, response, trace>>

-----------------------------------------------------------------------------
(* Bounds *)

\* most records the store holds before valid submissions stop arriving
MaxStore == 2

\* datetime.now() yields a value of 1..MaxTime (the wall clock is not monotonic)
MaxTime == 2

-----------------------------------------------------------------------------
(* Python values *)

None == <<>>

Some(x) == <<x>>

\* str.lower() on one character
LowerChar(c) ==
    CASE c = "A" -> "a" [] c = "B" -> "b" [] c = "C" -> "c" [] c = "D" -> "d"
      [] c = "E" -> "e" [] c = "F" -> "f" [] c = "G" -> "g" [] c = "H" -> "h"
      [] c = "I" -> "i" [] c = "J" -> "j" [] c = "K" -> "k" [] c = "L" -> "l"
      [] c = "M" -> "m" [] c = "N" -> "n" [] c = "O" -> "o" [] c = "P" -> "p"
      [] c = "Q" -> "q" [] c = "R" -> "r" [] c = "S" -> "s" [] c = "T" -> "t"
      [] c = "U" -> "u" [] c = "V" -> "v" [] c = "W" -> "w" [] c = "X" -> "x"
      [] c = "Y" -> "y" [] c = "Z" -> "z" [] OTHER -> c

\* str.lower()
Lower(s) == [i \in 1..Len(s) |-> LowerChar(s[i])]

\* s[i:].startswith(sub), i counted from 1
StartsWithAt(s, sub, i) ==
    /\ i + Len(sub) - 1 <= Len(s)
    /\ \A j \in 1..Len(sub) : s[i + j - 1] = sub[j]

\* the str operator `sub in s`
StrIn(sub, s) == \E i \in 1..(Len(s) + 1) : StartsWithAt(s, sub, i)

\* round(num / den, ...) to the nearest integer multiple, ties to even; num >= 0.
\* Python rounds the binary float, which differs from this on exact ties only;
\* the sampled API values below contain no tie.
RoundDiv(num, den) ==
    LET q == num \div den
        r == num % den
    IN  IF 2 * r < den THEN q
        ELSE IF 2 * r > den THEN q + 1
        ELSE IF q % 2 = 0 THEN q ELSE q + 1

\* len(seq) of a list
PyLen(seq) == Len(seq)

-----------------------------------------------------------------------------
(* get_travel_advice *)

DelayAdvice == "Consider delaying your trip due to bad weather."

GoodAdvice == "Good time to start your trip!"

bad_weather_conditions ==
    << <<"r","a","i","n">>,
       <<"s","n","o","w">>,
       <<"s","t","o","r","m">>,
       <<"t","h","u","n","d","e","r","s","t","o","r","m">> >>

\* weather['description'] if weather and 'description' in weather else ''
DescOf(weather) ==
    IF weather # None /\ "description" \in DOMAIN weather
    THEN weather.description
    ELSE <<>>

\* any(condition in desc.lower() for condition in bad_weather_conditions)
WeatherBad(desc) ==
    \E k \in 1..Len(bad_weather_conditions) :
        StrIn(bad_weather_conditions[k], Lower(desc))

\* the hour test of the elif branch
LateHourMut(hour) == hour >= 23 \/ hour < 4

LateHour(hour) == hour >= 23 \/ hour <= 4

get_travel_advice(ws, we, hour) ==
    LET start_desc == DescOf(ws)
        end_desc == DescOf(we)
        start_weather_bad == WeatherBad(start_desc)
        end_weather_bad == WeatherBad(end_desc)
    IN  IF start_weather_bad \/ end_weather_bad THEN DelayAdvice
        ELSE IF LateHour(hour) THEN DelayAdvice
        ELSE GoodAdvice

-----------------------------------------------------------------------------
(* Answers of the external services.  An answer is                          *)
(* [api, kind, body]: kind "transport_error" when the HTTP call raises,     *)
(* "bad_body" when response.json() raises, "parsed" with the decoded body.  *)

NoReply == [api |-> "none", kind |-> "none", body |-> None]

Failed(a, k) == [api |-> a, kind |-> k, body |-> None]

Parsed(a, b) == [api |-> a, kind |-> "parsed", body |-> b]

Hope == <<"H","o","p","e">>

Trail == <<"T","r","a","i","l">>

\* bodies the GeoDB API may answer with: the city list, or an error object
GeoBodies ==
    { [data |-> << [name |-> Hope, latitude |-> 4938, longitude |-> -12144],
                   [name |-> Trail, latitude |-> 4910, longitude |-> -11771] >>],
      [message |-> "rate limit exceeded"] }

GeoReplies ==
    {Failed("geo", "transport_error"), Failed("geo", "bad_body")}
        \cup {Parsed("geo", b) : b \in GeoBodies}

ClearSky == <<"C","l","e","a","r"," ","s","k","y">>

LightRain == <<"l","i","g","h","t"," ","r","a","i","n">>

\* bodies the weather API may answer with (temp in hundredths of a kelvin)
WeatherBodies ==
    { [main |-> [temp |-> 27315], weather |-> << [description |-> ClearSky] >>],
      [main |-> [temp |-> 29321], weather |-> << [description |-> LightRain] >>],
      [cod |-> 401],
      [main |-> [temp |-> 27315], weather |-> << >>],
      [main |-> [temp |-> 27315], weather |-> << [id |-> 800] >>] }

WeatherReplies ==
    {Failed("weather", "transport_error"), Failed("weather", "bad_body")}
        \cup {Parsed("weather", b) : b \in WeatherBodies}

\* bodies the routing API may answer with (distances in m, durations in s)
RouteBodies ==
    { [error |-> "Could not find routable point"],
      [routes |-> << >>],
      [routes |-> << [summary |-> 0] >>],
      [routes |-> << [segments |-> << >>] >>],
      [routes |-> << [segments |-> << [detourfactor |-> 1] >>] >>],
      [routes |-> << [segments |-> <<
          [distance |-> 12345, duration |-> 125,
           steps |-> << [instruction |-> "Head north", distance |-> 2341],
                        [instruction |-> "Turn left", distance |-> 10004],
                        [instruction |-> "Arrive"] >>] >>] >>] }

RouteReplies ==
    {Failed("route", "transport_error"), Failed("route", "bad_body")}
        \cup {Parsed("route", b) : b \in RouteBodies}

\* outcomes of a storage call: get_mongodb_client returned None, the
\* collection operation raised, or it succeeded
StorageReplies ==
    {Failed("storage", "no_client"), Failed("storage", "error"),
     [api |-> "storage", kind |-> "ok", body |-> None]}

\* a function's outcome: it raised, or it returned value
Raised == [raised |-> TRUE, value |-> None]

Returned(v) == [raised |-> FALSE, value |-> v]

-----------------------------------------------------------------------------
(* get_bc_cities, get_coordinates *)

\* dict.get(key, default)
Get(d, key, default) == IF key \in DOMAIN d THEN d[key] ELSE default

\* requests.get and response.json() are not guarded: a failure propagates
get_bc_cities(r) ==
    IF r.kind # "parsed" THEN Raised
    ELSE LET data == Get(r.body, "data", <<>>)
         IN  Returned([i \in 1..Len(data) |->
                 [name |-> Get(data[i], "name", <<>>),
                  latitude |-> Get(data[i], "latitude", 0),
                  longitude |-> Get(data[i], "longitude", 0)]])

\* the name comparison of get_coordinates
SameCity(a, b) == Lower(a) = Lower(b)

\* the loop of get_coordinates over the fetched list: the first match wins
FindCoordinates(cities, city) ==
    LET hits == {i \in 1..Len(cities) : SameCity(cities[i].name, city)}
    IN  IF hits = {} THEN <<None, None>>
        ELSE LET i == CHOOSE k \in hits : \A m \in hits : k <= m
             IN  <<Some(cities[i].latitude), Some(cities[i].longitude)>>

get_coordinates(r, city) ==
    LET cities == get_bc_cities(r)
    IN  IF cities.raised THEN Raised
        ELSE Returned(FindCoordinates(cities.value, city))

-----------------------------------------------------------------------------
(* get_weather *)

WeatherFallback == [temperature |-> None, description |-> <<>>]

\* the try block: any missing key or index takes the except branch
WeatherOf(data) ==
    IF /\ "main" \in DOMAIN data
       /\ "temp" \in DOMAIN data.main
       /\ "weather" \in DOMAIN data
       /\ Len(data.weather) >= 1
       /\ "description" \in DOMAIN data.weather[1]
    THEN [temperature |-> Some(RoundDiv(data.main.temp - 27315 + 100000, 10) - 10000),
          description |-> data.weather[1].description]
    ELSE WeatherFallback

\* requests.get and response.json() stand before the try
get_weather(r) ==
    IF r.kind # "parsed" THEN Raised ELSE Returned(WeatherOf(r.body))

-----------------------------------------------------------------------------
(* get_route, after both coordinates are resolved *)

ZeroRoute == [distance |-> 0, duration |-> 0, steps |-> <<>>]

\* one entry of step_list: distance in hundredths of a km
StepOf(step) ==
    [instruction |-> Get(step, "instruction", ""),
     distance |-> RoundDiv(Get(step, "distance", 0), 10)]

\* lines 182-204, with the except branch for a missing key or index
RouteOf(data) ==
    IF "routes" \notin DOMAIN data \/ data.routes = <<>> THEN ZeroRoute
    ELSE LET route == data.routes[1]
         IN  IF "segments" \notin DOMAIN route \/ route.segments = <<>>
             THEN ZeroRoute
             ELSE LET segment == route.segments[1]
                      steps == Get(segment, "steps", <<>>)
                  IN  [distance |-> RoundDiv(Get(segment, "distance", 0), 100),
                       duration |-> RoundDiv(Get(segment, "duration", 0), 6),
                       steps |-> [i \in 1..Len(steps) |-> StepOf(steps[i])]]

\* a failed call that yields no result at all
RouteResultMut(r) ==
    IF r.kind # "parsed" THEN None ELSE RouteOf(r.body)

\* the try block of get_route: the coordinates are sent whatever they are,
\* and the answer alone decides the result
RouteResult(r) ==
    IF r.kind # "parsed" THEN ZeroRoute ELSE RouteOf(r.body)

-----------------------------------------------------------------------------
(* the query store *)

\* json.dumps of the summary dict: the key/value pairs in insertion order
RouteSummaryMut(rd) ==
    << <<"distance", IF rd # None THEN rd.distance ELSE 0>>,
       <<"duration", IF rd # None THEN rd.duration ELSE 0>>,
       <<"steps_count", 0>> >>

RouteSummary(rd) ==
    << <<"distance", IF rd # None THEN rd.distance ELSE 0>>,
       <<"duration", IF rd # None THEN rd.duration ELSE 0>>,
       <<"steps_count", IF rd # None THEN PyLen(rd.steps) ELSE 0>> >>

\* the document insert_one stores; _id is the ObjectId the driver assigns
QueryData(coll, sc, ec, now, summary) ==
    [_id |-> Len(coll) + 1, start_city |-> sc, end_city |-> ec,
     timestamp |-> now, route_summary |-> summary]

\* an insert that happens whatever the storage call's outcome
save_travel_queryMut(coll, r, sc, ec, now, summary) ==
    Append(coll, QueryData(coll, sc, ec, now, summary))

\* the collection after save_travel_query
save_travel_query(coll, r, sc, ec, now, summary) ==
    IF r.kind = "ok" THEN Append(coll, QueryData(coll, sc, ec, now, summary))
    ELSE coll

\* sort('timestamp', -1): insertion of one document into a descending list
RECURSIVE InsertDesc(_, _)
InsertDesc(doc, sorted) ==
    IF sorted = <<>> THEN <<doc>>
    ELSE IF Head(sorted).timestamp >= doc.timestamp
         THEN <<Head(sorted)>> \o InsertDesc(doc, Tail(sorted))
         ELSE <<doc>> \o sorted

\* the documents in insertion order
SortDescMut(coll) == coll

RECURSIVE SortDesc(_)
SortDesc(coll) ==
    IF coll = <<>> THEN <<>>
    ELSE InsertDesc(coll[Len(coll)], SortDesc(SubSeq(coll, 1, Len(coll) - 1)))

\* what get_travel_history returns: without a client the function falls off
\* its end and returns None
get_travel_history(coll, r) ==
    IF r.kind = "ok" THEN Some(SortDesc(coll))
    ELSE IF r.kind = "error" THEN Some(<<>>)
    ELSE None

-----------------------------------------------------------------------------
(* The page handlers.  One request is handled at a time; index runs as the  *)
(* steps of its body, each external call one step.                          *)

HopeUpper == <<"H","O","P","E">>

Oz == <<"O","z">>

\* the (start_city, end_city) pairs a valid form may carry
Submissions == { <<HopeUpper, Trail>>, <<Hope, Oz>>, <<Oz, Hope>> }

\* the values datetime.now(pacific_tz).hour takes in the handler model
HourSamples == {2, 14}

\* index has been entered: no page yet, no service called yet
Entered ==
    /\ travel_queries' = None
    /\ reply' = NoReply
    /\ response' = "none"

\* the locals of index and get_route before the handler assigns them
LocalsCleared ==
    /\ weather_start' = None
    /\ weather_end' = None
    /\ start_coord' = None
    /\ end_coord' = None
    /\ route_details' = None
    /\ current_hour' = None
    /\ travel_advice' = None

\* a new request arrives: nothing of the previous request is left but the store
Arrive(m, sc, ec) ==
    /\ pc = "idle"
    /\ method' = m
    /\ start_city' = sc
    /\ end_city' = ec
    /\ LocalsCleared
    /\ UNCHANGED store

\* an exception leaves the handler: the framework answers with an error page
Abort(r, step) ==
    /\ pc' = "idle"
    /\ reply' = r
    /\ response' = "error"
    /\ trace' = Append(trace, step)
    /\ LocalsCleared
    /\ UNCHANGED <<store, method, start_city, end_city, travel_queries>>

\* index, request.method # "POST": the else branch, then render
IndexGet ==
    /\ Arrive("GET", None, None)
    /\ Entered
    /\ trace' = <<>>
    /\ pc' = "render"

\* index, POST with form.is_valid() false
IndexPostInvalid ==
    /\ Arrive("POST", None, None)
    /\ Entered
    /\ trace' = <<"is_valid">>
    /\ pc' = "render"

\* index, POST with form.is_valid() true
IndexPostValid ==
    /\ Len(store) < MaxStore
    /\ \E sub \in Submissions : Arrive("POST", sub[1], sub[2])
    /\ Entered
    /\ trace' = <<"is_valid">>
    /\ pc' = "weather_start"

\* weather_start = get_weather(start_city)
GetWeatherStart ==
    /\ pc = "weather_start"
    /\ \E r \in WeatherReplies :
          LET w == get_weather(r)
          IN  IF w.raised THEN Abort(r, "get_weather_start")
              ELSE /\ weather_start' = w.value
                   /\ reply' = r
                   /\ trace' = Append(trace, "get_weather_start")
                   /\ pc' = "weather_end"
                   /\ UNCHANGED <<store, method, start_city, end_city,
                                  weather_end, start_coord, end_coord,
                                  route_details, current_hour, travel_advice,
                                  travel_queries, response>>

\* weather_end = get_weather(end_city)
GetWeatherEnd ==
    /\ pc = "weather_end"
    /\ \E r \in WeatherReplies :
          LET w == get_weather(r)
          IN  IF w.raised THEN Abort(r, "get_weather_end")
              ELSE /\ weather_end' = w.value
                   /\ reply' = r
                   /\ trace' = Append(trace, "get_weather_end")
                   /\ pc' = "coords_start"
                   /\ UNCHANGED <<store, method, start_city, end_city,
                                  weather_start, start_coord, end_coord,
                                  route_details, current_hour, travel_advice,
                                  travel_queries, response>>

\* get_route: start_lat, start_lon = get_coordinates(start)
GetCoordinatesStart ==
    /\ pc = "coords_start"
    /\ \E r \in GeoReplies :
          LET c == get_coordinates(r, start_city)
          IN  IF c.raised THEN Abort(r, "get_coordinates_start")
              ELSE /\ start_coord' = c.value
                   /\ reply' = r
                   /\ trace' = Append(trace, "get_coordinates_start")
                   /\ pc' = "coords_end"
                   /\ UNCHANGED <<store, method, start_city, end_city,
                                  weather_start, weather_end, end_coord,
                                  route_details, current_hour, travel_advice,
                                  travel_queries, response>>

\* get_route: end_lat, end_lon = get_coordinates(end)
GetCoordinatesEnd ==
    /\ pc = "coords_end"
    /\ \E r \in GeoReplies :
          LET c == get_coordinates(r, end_city)
          IN  IF c.raised THEN Abort(r, "get_coordinates_end")
              ELSE /\ end_coord' = c.value
                   /\ reply' = r
                   /\ trace' = Append(trace, "get_coordinates_end")
                   /\ pc' = "route_request"
                   /\ UNCHANGED <<store, method, start_city, end_city,
                                  weather_start, weather_end, start_coord,
                                  route_details, current_hour, travel_advice,
                                  travel_queries, response>>

\* get_route: the try block, and the return to index
RouteRequest ==
    /\ pc = "route_request"
    /\ \E r \in RouteReplies :
          /\ route_details' = RouteResult(r)
          /\ reply' = r
    /\ trace' = Append(trace, "route_request")
    /\ pc' = "advice"
    /\ UNCHANGED <<store, method, start_city, end_city, weather_start,
                   weather_end, start_coord, end_coord, current_hour,
                   travel_advice, travel_queries, response>>

\* the advice step going straight on to render
AdviceMut ==
    /\ pc = "advice"
    /\ \E h \in HourSamples :
          /\ current_hour' = Some(h)
          /\ travel_advice' = get_travel_advice(weather_start, weather_end, h)
    /\ trace' = Append(trace, "get_travel_advice")
    /\ pc' = "render"
    /\ UNCHANGED <<store, method, start_city, end_city, weather_start,
                   weather_end, start_coord, end_coord, route_details,
                   travel_queries, reply, response>>

\* travel_advice = get_travel_advice(weather_start, weather_end, current_time)
Advice ==
    /\ pc = "advice"
    /\ \E h \in HourSamples :
          /\ current_hour' = Some(h)
          /\ travel_advice' = get_travel_advice(weather_start, weather_end, h)
    /\ trace' = Append(trace, "get_travel_advice")
    /\ pc' = "persist"
    /\ UNCHANGED <<store, method, start_city, end_city, weather_start,
                   weather_end, start_coord, end_coord, route_details,
                   travel_queries, reply, response>>

\* route_summary = json.dumps(...); save_travel_query(...)
Persist ==
    /\ pc = "persist"
    /\ \E r \in StorageReplies, now \in 1..MaxTime :
          /\ store' = save_travel_query(store, r, start_city, end_city, now,
                                        RouteSummary(route_details))
          /\ reply' = r
    /\ trace' = Append(trace, "save_travel_query")
    /\ pc' = "render"
    /\ UNCHANGED <<method, start_city, end_city, weather_start, weather_end,
                   start_coord, end_coord, route_details, current_hour,
                   travel_advice, travel_queries, response>>

\* return render(..., {..., 'cities': get_bc_cities()})
Render ==
    /\ pc = "render"
    /\ \E r \in GeoReplies :
          IF get_bc_cities(r).raised THEN Abort(r, "render")
          ELSE /\ pc' = "idle"
               /\ reply' = r
               /\ response' = "page"
               /\ trace' = Append(trace, "render")
               /\ LocalsCleared
               /\ UNCHANGED <<store, method, start_city, end_city,
                              travel_queries>>

\* history: get_travel_history(), then render
History ==
    /\ Arrive("GET", None, None)
    /\ \E r \in StorageReplies :
          /\ travel_queries' = get_travel_history(store, r)
          /\ reply' = r
    /\ response' = "history"
    /\ trace' = <<"get_travel_history", "render">>
    /\ pc' = "idle"

Init ==
    /\ store = <<>>
    /\ pc = "idle"
    /\ method = None
    /\ start_city = None
    /\ end_city = None
    /\ weather_start = None
    /\ weather_end = None
    /\ start_coord = None
    /\ end_coord = None
    /\ route_details = None
    /\ current_hour = None
    /\ travel_advice = None
    /\ travel_queries = None
    /\ reply = NoReply
    /\ response = "none"
    /\ trace = <<>>

Next ==
    \/ IndexGet
    \/ IndexPostInvalid
    \/ IndexPostValid
    \/ GetWeatherStart
    \/ GetWeatherEnd
    \/ GetCoordinatesStart
    \/ GetCoordinatesEnd
    \/ RouteRequest
    \/ Advice
    \/ Persist
    \/ Render
    \/ History

Spec == Init /\ [][Next]_vars

-----------------------------------------------------------------------------
(* get_travel_advice on its own: every hour of the day against weather      *)
(* records that are missing, lack a description, or carry one of the        *)
(* descriptions below.                                                      *)

Descriptions ==
    { <<>>,
      <<"c","l","e","a","r">>,
      LightRain,
      <<"R","A","I","N">>,
      <<"S","n","o","w">>,
      <<"s","t","o","r","m","y">>,
      <<"T","h","u","n","d","e","r","s","t","o","r","m">>,
      <<"t","h","u","n","d","e","r">>,
      <<"r","a","i">>,
      <<"r","a"," ","i","n">>,
      <<"b","r","a","i","n","s">> }

WeatherArgs ==
    {None, [temperature |-> Some(0)]}
        \cup {[temperature |-> Some(0), description |-> d] : d \in Descriptions}

InitAdvice ==
    /\ store = <<>>
    /\ pc = "advice_args"
    /\ method = None
    /\ start_city = None
    /\ end_city = None
    /\ weather_start \in WeatherArgs
    /\ weather_end \in WeatherArgs
    /\ start_coord = None
    /\ end_coord = None
    /\ route_details = None
    /\ current_hour \in {Some(h) : h \in 0..23}
    /\ travel_advice = None
    /\ travel_queries = None
    /\ reply = NoReply
    /\ response = "none"
    /\ trace = <<>>

AdviceCall ==
    /\ pc = "advice_args"
    /\ travel_advice' =
          get_travel_advice(weather_start, weather_end, current_hour[1])
    /\ pc' = "advice_result"
    /\ UNCHANGED <<store, method, start_city, end_city, weather_start,
                   weather_end, start_coord, end_coord, route_details,
                   current_hour, travel_queries, reply, response, trace>>

NextAdvice == AdviceCall

SpecAdvice == InitAdvice /\ [][NextAdvice]_vars

-----------------------------------------------------------------------------
(* Properties *)

\* description d, lower-cased, holds the word w at some position
HasWord(d, w) ==
    \E i \in 1..Len(d) :
        /\ i + Len(w) - 1 <= Len(d)
        /\ SubSeq(Lower(d), i, i + Len(w) - 1) = w

BadWords ==
    { <<"r","a","i","n">>, <<"s","n","o","w">>, <<"s","t","o","r","m">>,
      <<"t","h","u","n","d","e","r","s","t","o","r","m">> }

\* the description a weather argument counts as having
ArgDescription(w) ==
    IF w = None THEN <<>>
    ELSE IF "description" \in DOMAIN w THEN w.description ELSE <<>>

\* C1: get_travel_advice returns the delay message exactly when the start or
\* the end description, lower-cased, contains rain, snow, storm or
\* thunderstorm, or the hour is 23 or in 0..4, and the good-time message in
\* every other case; a missing record or description counts as empty.
C1_AdviceRule ==
    pc = "advice_result" =>
        LET ds == ArgDescription(weather_start)
            de == ArgDescription(weather_end)
            h == current_hour[1]
            delay == \/ \E w \in BadWords : HasWord(ds, w) \/ HasWord(de, w)
                     \/ h = 23
                     \/ h \in 0..4
        IN  IF delay THEN travel_advice = DelayAdvice
            ELSE travel_advice = GoodAdvice

\* clear weather at hour 4: the delay message comes from the hour alone
C1_Witness ==
    /\ pc = "advice_result"
    /\ weather_start = None
    /\ "description" \in DOMAIN weather_end
    /\ weather_end.description = <<"c","l","e","a","r">>
    /\ current_hour = Some(4)
    /\ travel_advice = DelayAdvice


\* the last call the request made
LastStep == IF trace = <<>> THEN "none" ELSE trace[Len(trace)]

\* the steps of a valid POST, in the order index makes them
FullTrace ==
    <<"is_valid", "get_weather_start", "get_weather_end",
      "get_coordinates_start", "get_coordinates_end", "route_request",
      "get_travel_advice", "save_travel_query", "render">>

IsPrefix(a, b) == Len(a) <= Len(b) /\ SubSeq(b, 1, Len(a)) = a

\* C2: the store gains exactly one record at the persist step of a valid POST
\* whose storage call succeeds, and no other step of any request (GET,
\* invalid POST, history, a failed save) changes the store at all.
C2_StoreOnlyGrowsByPersist ==
    [][IF /\ pc = "persist"
          /\ method = "POST"
          /\ start_city # None
          /\ reply'.api = "storage"
          /\ reply'.kind = "ok"
       THEN /\ Len(store') = Len(store) + 1
            /\ SubSeq(store', 1, Len(store)) = store
       ELSE store' = store]_vars

\* two valid submissions were persisted, and the invalid POST now being
\* handled has reached render with both records in place
C2_Witness ==
    /\ Len(store) = 2
    /\ pc = "render"
    /\ method = "POST"
    /\ start_city = None

\* C3 (as stated): no call of get_weather ends by raising.
C3_WeatherNeverRaises ==
    ~(response = "error" /\ LastStep \in {"get_weather_start", "get_weather_end"})

\* the answer of the routing API carries no usable route
RouteDataMissing(r) ==
    \/ r.kind # "parsed"
    \/ "routes" \notin DOMAIN r.body
    \/ r.body.routes = <<>>
    \/ "segments" \notin DOMAIN r.body.routes[1]
    \/ r.body.routes[1].segments = <<>>

\* C4 (as stated): get_route never propagates an error, whether from the
\* routing call or from resolving a city's coordinates.
C4_RouteNeverRaises ==
    ~(response = "error"
        /\ LastStep \in {"get_coordinates_start", "get_coordinates_end",
                         "route_request"})

\* C4 (amended): once both coordinates are resolved, get_route returns the
\* zeroed fallback whenever the routing call raises, its body cannot be
\* parsed, or the route data is missing or empty, and the routing step never
\* aborts the request; a failure of the city lookup while resolving
\* coordinates is not caught and aborts the request.
C4_RouteFallbackAfterCoordinates ==
    /\ pc = "advice" =>
          /\ reply.api = "route"
          /\ RouteDataMissing(reply) => route_details = ZeroRoute
    /\ LastStep = "route_request" => response # "error"
    /\ (LastStep \in {"get_coordinates_start", "get_coordinates_end"}
          /\ reply.kind # "parsed") => (response = "error" /\ pc = "idle")

\* the routing call failed in transport and the caller got the fallback
C4_Witness ==
    /\ pc = "advice"
    /\ reply.kind = "transport_error"
    /\ route_details = ZeroRoute

\* city matches no name of the list in geo answer r
NoSuchCity(r, city) ==
    \A i \in 1..Len(Get(r.body, "data", <<>>)) :
        Lower(Get(r.body, "data", <<>>)[i].name) # Lower(city)

\* C5 (as stated): a city that matches no entry of the fetched list resolves
\* to (None, None), and get_route with such a start or end returns the zeroed
\* fallback whatever the routing API answers.
C5_UnknownCityZeroRoute ==
    /\ (pc = "coords_end" /\ NoSuchCity(reply, start_city))
          => start_coord = <<None, None>>
    /\ (pc = "route_request" /\ NoSuchCity(reply, end_city))
          => end_coord = <<None, None>>
    /\ (pc = "advice"
          /\ (start_coord = <<None, None>> \/ end_coord = <<None, None>>))
          => route_details = ZeroRoute

\* C6 (as stated): get_travel_history returns a sequence, never None, and an
\* empty one on every storage failure.
C6_HistoryNeverNone ==
    response = "history" =>
        /\ travel_queries # None
        /\ reply.kind # "ok" => travel_queries = Some(<<>>)

\* C7: with storage available get_travel_history returns every stored record
\* exactly once, each timestamp greater than or equal to the next one's.
C7_HistoryNewestFirst ==
    (response = "history" /\ reply.kind = "ok") =>
        LET h == travel_queries[1]
        IN  /\ Len(h) = Len(store)
            /\ \A i \in 1..Len(store) :
                  Cardinality({j \in 1..Len(h) : h[j] = store[i]}) = 1
            /\ \A i \in 1..(Len(h) - 1) : h[i].timestamp >= h[i + 1].timestamp

\* two records stored oldest first: the listing has to reverse them
C7_Witness ==
    /\ response = "history"
    /\ reply.kind = "ok"
    /\ Len(store) = 2
    /\ store[1].timestamp < store[2].timestamp

\* C8: every stored record's summary has exactly the fields distance,
\* duration and steps_count, all numbers; the record a valid POST has just
\* persisted carries the distance and duration of the route result the page
\* will show and the number of its steps.
C8_SummaryIsThreeNumbers ==
    /\ \A i \in 1..Len(store) :
          LET s == store[i].route_summary
          IN  /\ Len(s) = 3
              /\ s[1][1] = "distance"
              /\ s[2][1] = "duration"
              /\ s[3][1] = "steps_count"
              /\ \A k \in 1..3 : Len(s[k]) = 2 /\ s[k][2] \in Nat
    /\ (pc = "render" /\ reply.api = "storage" /\ reply.kind = "ok") =>
          LET q == store[Len(store)]
          IN  /\ q.start_city = start_city
              /\ q.end_city = end_city
              /\ q.route_summary[1][2] = route_details.distance
              /\ q.route_summary[2][2] = route_details.duration
              /\ q.route_summary[3][2] = Len(route_details.steps)

\* a route of three steps was persisted: 12.3 km, 2.1 min, 3 steps
C8_Witness ==
    /\ pc = "render"
    /\ reply.api = "storage"
    /\ reply.kind = "ok"
    /\ Len(route_details.steps) = 3
    /\ store[Len(store)].route_summary =
          << <<"distance", 123>>, <<"duration", 21>>, <<"steps_count", 3>> >>

\* C9 (as stated): a form-page request aborts exactly when the city lookup
\* fails; weather, routing and storage failures never abort it.
C9_OnlyCityLookupAborts ==
    (pc = "idle" /\ response \in {"error", "page"}) =>
        (response = "error" <=> (reply.api = "geo" /\ reply.kind # "parsed"))

\* C10: a valid POST makes its calls in the order of FullTrace, none skipped
\* or repeated, and has made them all when the page is rendered; the store
\* changes only at the save step, which follows the advice step (so the route
\* lookup has returned) and precedes render.
C10_StepOrder ==
    [][/\ start_city' # None => IsPrefix(trace', FullTrace)
       /\ (start_city' # None /\ response' = "page") => trace' = FullTrace
       /\ store' # store =>
             /\ trace = SubSeq(FullTrace, 1, 7)
             /\ trace' = SubSeq(FullTrace, 1, 8)
             /\ pc' = "render"
       /\ (response' = "error"
             /\ LastStep' \in {"get_coordinates_start", "get_coordinates_end"})
             => store' = store]_vars

\* a valid POST ran to the rendered page and left one record
C10_Witness ==
    /\ response = "page"
    /\ start_city # None
    /\ trace = FullTrace
    /\ Len(store) = 1

=============================================================================
